---- MODULE Spec2Model ----
(***************************************************************************)
(* Model of generate_post.py: one run of main(), cut at its blocking       *)
(* network calls.  Text is a sequence of atoms: an atom is a piece of text *)
(* that the string operations of the script never look inside ("a" is a    *)
(* word character, " " a blank, "\n" a line break, "<p>" and "<h" the two  *)
(* literals main() searches for, Marker the completion marker).            *)
(***************************************************************************)
EXTENDS Integers, Sequences, FiniteSets, TLC

VARIABLES OPENAI_KEY, HF_TOKEN, PRIMARY_KEYWORD, AFF_LINK,
          pc, tier, txt, title, body, excerpt, post_id, media_id,
          calls, resps, log

vars == <<OPENAI_KEY, HF_TOKEN, PRIMARY_KEYWORD, AFF_LINK,
          pc, tier, txt, title, body, excerpt, post_id, media_id,
          calls, resps, log>>

config == <<OPENAI_KEY, HF_TOKEN, PRIMARY_KEYWORD, AFF_LINK>>

-----------------------------------------------------------------------------
(* Bounds *)

MaxTextLen == 2

MaxLines == 4

-----------------------------------------------------------------------------
(* Text *)

NL == "\n"

SP == " "

Marker == "<!-- AUTO_GENERATED -->"

P_OPEN == "<p>"

P_CLOSE == "</p>"

H_OPEN == "<h"

TextAtoms == {"a", SP, NL, P_OPEN, H_OPEN, Marker}

RECURSIVE SeqsUpTo(_, _)
SeqsUpTo(S, n) ==
    IF n = 0 THEN {<<>>}
    ELSE LET shorter == SeqsUpTo(S, n - 1)
         IN  shorter \cup {Append(s, x) : s \in {t \in shorter : Len(t) = n - 1}, x \in S}

PyStr(s) == [type |-> "str", val |-> s]

PyNone == [type |-> "NoneType", val |-> <<>>]

\* needle in s, for a needle that is one atom
Contains(needle, s) == \E i \in 1..Len(s) : s[i] = needle

RECURSIVE Count(_, _)
Count(needle, s) ==
    IF s = <<>> THEN 0
    ELSE (IF Head(s) = needle THEN 1 ELSE 0) + Count(needle, Tail(s))

\* needle in s, for a needle that is a text
ContainsSeq(needle, s) ==
    \E i \in 0..(Len(s) - Len(needle)) :
        \A k \in 1..Len(needle) : s[i + k] = needle[k]

RECURSIVE split(_, _, _)
split(s, sep, cur) ==
    IF s = <<>> THEN <<cur>>
    ELSE IF Head(s) = sep THEN <<cur>> \o split(Tail(s), sep, <<>>)
    ELSE split(Tail(s), sep, Append(cur, Head(s)))

splitlines(s) ==
    LET raw == split(s, NL, <<>>)
    IN  IF s = <<>> THEN <<>>
        ELSE IF s[Len(s)] = NL THEN SubSeq(raw, 1, Len(raw) - 1)
        ELSE raw

Whitespace == {SP, NL}

RECURSIVE lstrip(_)
lstrip(s) ==
    IF s # <<>> /\ Head(s) \in Whitespace THEN lstrip(Tail(s)) ELSE s

RECURSIVE rstrip(_)
rstrip(s) ==
    IF s # <<>> /\ s[Len(s)] \in Whitespace THEN rstrip(SubSeq(s, 1, Len(s) - 1)) ELSE s

strip(s) == rstrip(lstrip(s))

RECURSIVE join(_, _)
join(sep, parts) ==
    IF parts = <<>> THEN <<>>
    ELSE IF Len(parts) = 1 THEN parts[1]
    ELSE parts[1] \o sep \o join(sep, Tail(parts))

\* body.split("\n\n")
RECURSIVE split_blank(_, _)
split_blank(s, cur) ==
    IF s = <<>> THEN <<cur>>
    ELSE IF Len(s) >= 2 /\ s[1] = NL /\ s[2] = NL
         THEN <<cur>> \o split_blank(Tail(Tail(s)), <<>>)
    ELSE split_blank(Tail(s), Append(cur, Head(s)))

RECURSIVE MapStrip(_)
MapStrip(ls) ==
    IF ls = <<>> THEN <<>> ELSE <<strip(Head(ls))>> \o MapStrip(Tail(ls))

RECURSIVE NonEmpty(_)
NonEmpty(ls) ==
    IF ls = <<>> THEN <<>>
    ELSE IF strip(Head(ls)) # <<>> THEN <<Head(ls)>> \o NonEmpty(Tail(ls))
    ELSE NonEmpty(Tail(ls))

RECURSIVE WrapAll(_)
WrapAll(ps) ==
    IF ps = <<>> THEN <<>>
    ELSE <<(<<P_OPEN>> \o Head(ps) \o <<P_CLOSE>>)>> \o WrapAll(Tail(ps))

-----------------------------------------------------------------------------
(* Configuration and generated text *)

Keywords == {<<"a">>, <<"a", SP, "a">>, <<>>, <<Marker>>}

AffLinks == {<<"u">>, <<"u", Marker>>}

Texts == SeqsUpTo(TextAtoms, MaxTextLen)

\* the template without its affiliate paragraph
fallback_generate_NoLink ==
    LET t  == PRIMARY_KEYWORD \o <<SP, "-- A practical guide">>
        b1 == <<H_OPEN, "2>Introduction</h2>", P_OPEN,
                "This article provides a concise overview for '">>
              \o PRIMARY_KEYWORD \o <<"'.", P_CLOSE>>
        b2 == <<H_OPEN, "2>Top picks</h2><ul><li>Tool A</li><li>Tool B</li></ul>">>
    IN  t \o <<NL, NL>> \o (b1 \o b2) \o <<NL, NL, Marker>>

fallback_generate ==
    LET t  == PRIMARY_KEYWORD \o <<SP, "-- A practical guide">>
        b1 == <<H_OPEN, "2>Introduction</h2>", P_OPEN,
                "This article provides a concise overview for '">>
              \o PRIMARY_KEYWORD \o <<"'.", P_CLOSE>>
        b2 == <<H_OPEN, "2>Top picks</h2><ul><li>Tool A</li><li>Tool B</li></ul>">>
        b3 == <<P_OPEN, "For more details and an affiliate offer, visit", SP>>
              \o AFF_LINK \o <<P_CLOSE>>
    IN  t \o <<NL, NL>> \o (b1 \o b2 \o b3) \o <<NL, NL, Marker>>

-----------------------------------------------------------------------------
(* Formatter: main(), lines 123-133 *)

lines_of(t) == MapStrip(NonEmpty(splitlines(t)))

title_of(t) ==
    IF lines_of(t) # <<>> THEN lines_of(t)[1] ELSE PRIMARY_KEYWORD

joined_body(t) ==
    IF Len(lines_of(t)) > 1 THEN join(<<NL>>, Tail(lines_of(t))) ELSE <<>>

\* the check without its "<h" half
is_plain_OnlyP(b) == ~Contains(P_OPEN, b)

is_plain(b) == ~Contains(P_OPEN, b) /\ ~Contains(H_OPEN, b)

wrap_paragraphs(b) ==
    IF is_plain(b)
    THEN join(<<NL>>, WrapAll(NonEmpty(split_blank(b, <<>>))))
    ELSE b

ExcerptLen == 140

excerpt_of(b) == SubSeq(b, 1, IF Len(b) < ExcerptLen THEN Len(b) ELSE ExcerptLen)

\* the append without its presence check
mark_auto_generated_Always(b) == b \o <<NL, NL, Marker>>

mark_auto_generated(b) ==
    IF ~Contains(Marker, b) THEN b \o <<NL, NL, Marker>> ELSE b

-----------------------------------------------------------------------------
(* Requests and responses *)

NoTimeout == 0

OpenAITimeout == 120

PostTimeout == 30

ImageTimeout == 30

MediaTimeout == 60

UpdateTimeout == 30

NoId == -1

PostIds == {NoId, 0, 42}

MediaIds == {NoId, 0, 7}

Truthy(id) == id # NoId /\ id # 0

Request(endpoint, method, timeout) ==
    [endpoint |-> endpoint, method |-> method, timeout |-> timeout,
     title |-> <<>>, content |-> <<>>, excerpt |-> <<>>,
     target |-> NoId, featured_media |-> NoId]

Response(kind) == [kind |-> kind, text |-> <<>>, id |-> NoId]

\* requests raises: connection error, timeout, raise_for_status()
TransportFailures(call) ==
    {Response("neterr"), Response("http_err")}
    \cup (IF call.timeout # NoTimeout THEN {Response("timeout")} ELSE {})

OpenAIResponses(call) ==
    TransportFailures(call)
    \cup {Response(k) : k \in {"bad_json", "no_choices", "empty_choices", "content_null"}}
    \cup {[kind |-> "content", text |-> t, id |-> NoId] : t \in Texts}

HFResponses(call) ==
    TransportFailures(call)
    \cup {Response(k) : k \in {"bad_json", "list_empty", "list_other", "list_null",
                               "dict_other", "scalar"}}
    \cup {[kind |-> k, text |-> t, id |-> NoId] : k \in {"list_text", "dict_text"}, t \in Texts}

WPResponses(call, ids) ==
    TransportFailures(call)
    \cup {Response("bad_json"), Response("json_nonobj")}
    \cup {[kind |-> "ok", text |-> <<>>, id |-> i] : i \in ids}

RawResponses(call) == TransportFailures(call) \cup {Response("ok")}

Raised == [raises |-> TRUE, value |-> PyNone]

Returned(v) == [raises |-> FALSE, value |-> v]

StrOfDict == <<"{'", "a", "'}">>

\* call_openai after requests.post: raise_for_status, r.json(),
\* j["choices"][0]["message"]["content"]
call_openai(resp) ==
    CASE resp.kind = "content"      -> Returned(PyStr(resp.text))
      [] resp.kind = "content_null" -> Returned(PyNone)
      [] OTHER                      -> Raised

\* call_hf after requests.post
call_hf(resp) ==
    CASE resp.kind = "list_text" -> Returned(PyStr(resp.text))
      [] resp.kind = "list_null" -> Returned(PyNone)
      [] resp.kind = "dict_text" ->
            Returned(PyStr(IF resp.text # <<>> THEN resp.text ELSE StrOfDict))
      [] resp.kind = "dict_other" -> Returned(PyStr(StrOfDict))
      [] OTHER -> Raised

Entry(msg) == [msg |-> msg, id |-> NoId]

last_call == calls[Len(calls)]

-----------------------------------------------------------------------------
(* The run *)

Init ==
    /\ OPENAI_KEY \in BOOLEAN
    /\ HF_TOKEN \in BOOLEAN
    /\ PRIMARY_KEYWORD \in Keywords
    /\ AFF_LINK \in AffLinks
    /\ pc = "start"
    /\ tier = "none"
    /\ txt = PyNone
    /\ title = <<>>
    /\ body = <<>>
    /\ excerpt = <<>>
    /\ post_id = NoId
    /\ media_id = NoId
    /\ calls = <<>>
    /\ resps = <<>>
    /\ log = <<Entry("Generating content...")>>

\* generate_content: if OPENAI_KEY: call_openai(prompt) up to requests.post
StartOpenAI ==
    /\ pc = "start"
    /\ OPENAI_KEY
    /\ calls' = Append(calls, Request("openai", "POST", OpenAITimeout))
    /\ pc' = "wait_openai"
    /\ UNCHANGED <<config, tier, txt, title, body, excerpt, post_id, media_id, resps, log>>

\* generate_content: else: call_hf(prompt) with HF_TOKEN, up to requests.post
StartHF ==
    /\ pc = "start"
    /\ ~OPENAI_KEY
    /\ HF_TOKEN
    /\ calls' = Append(calls, Request("hf", "POST", NoTimeout))
    /\ pc' = "wait_hf"
    /\ UNCHANGED <<config, tier, txt, title, body, excerpt, post_id, media_id, resps, log>>

\* generate_content: else: call_hf(prompt) without HF_TOKEN
StartLocal ==
    /\ pc = "start"
    /\ ~OPENAI_KEY
    /\ ~HF_TOKEN
    /\ txt' = PyStr(fallback_generate)
    /\ tier' = "local"
    /\ pc' = "generated"
    /\ UNCHANGED <<config, title, body, excerpt, post_id, media_id, calls, resps, log>>

\* generate_content: return of the try block, or the except block
generate_return(result, backend) ==
    IF result.raises
    THEN /\ log' = log \o <<Entry("Model call failed:"), Entry("Using fallback generator.")>>
         /\ txt' = PyStr(fallback_generate)
         /\ tier' = "local"
    ELSE /\ log' = log
         /\ txt' = result.value
         /\ tier' = backend

\* a failure of backend A falling through to backend B
OpenAIReturn_FallsToHF ==
    /\ pc = "wait_openai"
    /\ \E resp \in OpenAIResponses(last_call) :
          /\ resps' = Append(resps, resp)
          /\ IF call_openai(resp).raises /\ HF_TOKEN
             THEN /\ log' = Append(log, Entry("Model call failed:"))
                  /\ calls' = Append(calls, Request("hf", "POST", NoTimeout))
                  /\ pc' = "wait_hf"
                  /\ UNCHANGED <<txt, tier>>
             ELSE /\ generate_return(call_openai(resp), "openai")
                  /\ pc' = "generated"
                  /\ calls' = calls
    /\ UNCHANGED <<config, title, body, excerpt, post_id, media_id>>

OpenAIReturn ==
    /\ pc = "wait_openai"
    /\ \E resp \in OpenAIResponses(last_call) :
          /\ resps' = Append(resps, resp)
          /\ generate_return(call_openai(resp), "openai")
    /\ pc' = "generated"
    /\ UNCHANGED <<config, title, body, excerpt, post_id, media_id, calls>>

HFReturn ==
    /\ pc = "wait_hf"
    /\ \E resp \in HFResponses(last_call) :
          /\ resps' = Append(resps, resp)
          /\ generate_return(call_hf(resp), "hf")
    /\ pc' = "generated"
    /\ UNCHANGED <<config, title, body, excerpt, post_id, media_id, calls>>

\* a request sent without a timeout to a server that never answers
NeverResponds ==
    /\ pc \in {"wait_openai", "wait_hf", "wait_post", "wait_image", "wait_upload", "wait_update"}
    /\ last_call.timeout = NoTimeout
    /\ pc' = "blocked"
    /\ UNCHANGED <<config, tier, txt, title, body, excerpt, post_id, media_id, calls, resps, log>>

\* main, lines 123-136: format and send the post-creation request
Format ==
    /\ pc = "generated"
    /\ txt.type = "str"
    /\ LET b == wrap_paragraphs(joined_body(txt.val))
       IN  /\ title' = title_of(txt.val)
           /\ excerpt' = excerpt_of(b)
           /\ body' = mark_auto_generated(b)
    /\ calls' = Append(calls, [Request("posts", "POST", PostTimeout) EXCEPT
                                 !.title = title', !.content = body', !.excerpt = excerpt'])
    /\ pc' = "wait_post"
    /\ UNCHANGED <<config, tier, txt, post_id, media_id, resps, log>>

\* main, line 123: txt.splitlines() on a value that is not a string
FormatRaises ==
    /\ pc = "generated"
    /\ txt.type # "str"
    /\ pc' = "raised"
    /\ UNCHANGED <<config, tier, txt, title, body, excerpt, post_id, media_id, calls, resps, log>>

\* main, lines 153-154
failed_to_post ==
    /\ log' = Append(log, Entry("Failed to post:"))
    /\ pc' = "done"

\* the image steps without their own try/except
image_attach_failed_Propagates ==
    /\ log' = Append(log, Entry("Failed to post:"))
    /\ pc' = "done"

\* main, lines 151-152
image_attach_failed ==
    /\ log' = Append(log, Entry("Image attach failed:"))
    /\ pc' = "done"

\* post_to_wp without raise_for_status()
PostReturn_NoRaiseForStatus ==
    /\ pc = "wait_post"
    /\ \E resp \in WPResponses(last_call, PostIds) :
          /\ resps' = Append(resps, resp)
          /\ IF resp.kind \in {"ok", "http_err"}
             THEN /\ post_id' = resp.id
                  /\ log' = Append(log, [msg |-> "Draft created. Post ID:", id |-> resp.id])
                  /\ calls' = Append(calls, Request("unsplash", "GET", ImageTimeout))
                  /\ pc' = "wait_image"
             ELSE /\ failed_to_post
                  /\ UNCHANGED <<post_id, calls>>
    /\ UNCHANGED <<config, tier, txt, title, body, excerpt, media_id>>

PostReturn ==
    /\ pc = "wait_post"
    /\ \E resp \in WPResponses(last_call, PostIds) :
          /\ resps' = Append(resps, resp)
          /\ IF resp.kind = "ok"
             THEN /\ post_id' = resp.id
                  /\ log' = Append(log, [msg |-> "Draft created. Post ID:", id |-> resp.id])
                  /\ calls' = Append(calls, Request("unsplash", "GET", ImageTimeout))
                  /\ pc' = "wait_image"
             ELSE /\ failed_to_post
                  /\ UNCHANGED <<post_id, calls>>
    /\ UNCHANGED <<config, tier, txt, title, body, excerpt, media_id>>

ImageReturn ==
    /\ pc = "wait_image"
    /\ \E resp \in RawResponses(last_call) :
          /\ resps' = Append(resps, resp)
          /\ IF resp.kind = "ok"
             THEN /\ calls' = Append(calls, Request("media", "POST", MediaTimeout))
                  /\ pc' = "wait_upload"
                  /\ log' = log
             ELSE /\ image_attach_failed
                  /\ calls' = calls
    /\ UNCHANGED <<config, tier, txt, title, body, excerpt, post_id, media_id>>

\* the guard of the update with "or" for "and"
UploadReturn_Or ==
    /\ pc = "wait_upload"
    /\ \E resp \in WPResponses(last_call, MediaIds) :
          /\ resps' = Append(resps, resp)
          /\ IF resp.kind = "ok"
             THEN /\ media_id' = resp.id
                  /\ log' = log
                  /\ IF Truthy(post_id) \/ Truthy(resp.id)
                     THEN /\ calls' = Append(calls,
                                 [Request("posts/{id}", "POST", UpdateTimeout) EXCEPT
                                    !.target = post_id, !.featured_media = resp.id])
                          /\ pc' = "wait_update"
                     ELSE /\ calls' = calls
                          /\ pc' = "done"
             ELSE /\ image_attach_failed
                  /\ UNCHANGED <<media_id, calls>>
    /\ UNCHANGED <<config, tier, txt, title, body, excerpt, post_id>>

UploadReturn ==
    /\ pc = "wait_upload"
    /\ \E resp \in WPResponses(last_call, MediaIds) :
          /\ resps' = Append(resps, resp)
          /\ IF resp.kind = "ok"
             THEN /\ media_id' = resp.id
                  /\ log' = log
                  /\ IF Truthy(post_id) /\ Truthy(resp.id)
                     THEN /\ calls' = Append(calls,
                                 [Request("posts/{id}", "POST", UpdateTimeout) EXCEPT
                                    !.target = post_id, !.featured_media = resp.id])
                          /\ pc' = "wait_update"
                     ELSE /\ calls' = calls
                          /\ pc' = "done"
             ELSE /\ image_attach_failed
                  /\ UNCHANGED <<media_id, calls>>
    /\ UNCHANGED <<config, tier, txt, title, body, excerpt, post_id>>

UpdateReturn ==
    /\ pc = "wait_update"
    /\ \E resp \in RawResponses(last_call) :
          /\ resps' = Append(resps, resp)
          /\ IF resp.kind = "ok"
             THEN /\ log' = Append(log, Entry("Featured image set."))
                  /\ pc' = "done"
             ELSE image_attach_failed
    /\ UNCHANGED <<config, tier, txt, title, body, excerpt, post_id, media_id, calls>>

Next ==
    \/ StartOpenAI
    \/ StartHF
    \/ StartLocal
    \/ OpenAIReturn
    \/ HFReturn
    \/ NeverResponds
    \/ Format
    \/ FormatRaises
    \/ PostReturn
    \/ ImageReturn
    \/ UploadReturn
    \/ UpdateReturn

Spec == Init /\ [][Next]_vars

-----------------------------------------------------------------------------
(* The formatter on its own: the run taken up at the point where a backend  *)
(* has just returned, for every text (or non-text value) it can return.     *)

FmtLines == {<<>>, <<SP>>, <<"a">>, <<SP, "a", SP>>, <<P_OPEN, "a">>, <<H_OPEN>>,
             <<Marker>>, <<"a", Marker>>}

FmtTexts == {join(<<NL>>, ls) : ls \in SeqsUpTo(FmtLines, MaxLines)}

InitFormat ==
    /\ OPENAI_KEY = TRUE
    /\ HF_TOKEN = FALSE
    /\ PRIMARY_KEYWORD \in Keywords
    /\ AFF_LINK = <<"u">>
    /\ pc = "generated"
    /\ tier = "openai"
    /\ txt \in {PyStr(t) : t \in FmtTexts} \cup {PyNone}
    /\ title = <<>>
    /\ body = <<>>
    /\ excerpt = <<>>
    /\ post_id = NoId
    /\ media_id = NoId
    /\ calls = <<Request("openai", "POST", OpenAITimeout)>>
    /\ resps = <<[kind |-> IF txt = PyNone THEN "content_null" ELSE "content",
                  text |-> txt.val, id |-> NoId]>>
    /\ log = <<Entry("Generating content...")>>

NextFormat ==
    \/ Format
    \/ FormatRaises

SpecFormat == InitFormat /\ [][NextFormat]_vars

-----------------------------------------------------------------------------
(* Properties *)

HasCall(e) == \E i \in 1..Len(calls) : calls[i].endpoint = e

CallsTo(e) == {i \in 1..Len(calls) : calls[i].endpoint = e}

Logged(m) == \E i \in 1..Len(log) : log[i].msg = m

Answered(i) == i <= Len(resps)

BackendRaised ==
    /\ Len(calls) >= 1
    /\ Answered(1)
    /\ \/ calls[1].endpoint = "openai" /\ call_openai(resps[1]).raises
       \/ calls[1].endpoint = "hf" /\ call_hf(resps[1]).raises

FailedLogged ==
    \E k \in 1..(Len(log) - 1) :
        /\ log[k].msg = "Model call failed:"
        /\ log[k + 1].msg = "Using fallback generator."

\* C1 (as stated): the local template is used only after backend B is
\* unconfigured or has been attempted and has failed; in particular a failure
\* of backend A is followed by an attempt of backend B when B is configured.
C1_Claim ==
    tier = "local" =>
        \/ ~HF_TOKEN
        \/ \E i \in CallsTo("hf") : Answered(i) /\ call_hf(resps[i]).raises

\* C1 (amended): a failed backend call is logged and followed by the local
\* template, never by another backend: backend A is attempted exactly when its
\* credential is configured, backend B only when A's credential is not
\* configured and B's is, and the local template is used when no credential is
\* configured or when the one backend that was attempted has failed.
C1_Amended ==
    /\ HasCall("openai") => OPENAI_KEY
    /\ HasCall("hf") => ~OPENAI_KEY /\ HF_TOKEN /\ ~HasCall("openai")
    /\ pc # "start" /\ OPENAI_KEY => HasCall("openai") /\ ~HasCall("hf")
    /\ pc # "start" /\ ~OPENAI_KEY /\ HF_TOKEN => HasCall("hf")
    /\ BackendRaised => tier = "local" /\ FailedLogged /\ txt = PyStr(fallback_generate)
    /\ tier = "local" =>
          BackendRaised \/ (~OPENAI_KEY /\ ~HF_TOKEN /\ ~HasCall("openai") /\ ~HasCall("hf"))

C1_Witness ==
    /\ OPENAI_KEY
    /\ HF_TOKEN
    /\ BackendRaised
    /\ tier = "local"

\* C2 (as stated): whatever the backends answer, generate_content hands main
\* a text string and no error leaves main while it splits that text.
C2_Claim ==
    /\ pc # "raised"
    /\ pc \notin {"start", "wait_openai", "wait_hf", "blocked"} => txt.type = "str"

NoCredentials == ~OPENAI_KEY /\ ~HF_TOKEN /\ pc # "start"

TemplateTitle == PRIMARY_KEYWORD \o <<SP, "-- A practical guide">>

TemplateBody(t) == SubSeq(t, Len(TemplateTitle) + 3, Len(t) - 3)

IsTemplate(t) ==
    /\ Len(t) > Len(TemplateTitle) + 5
    /\ SubSeq(t, 1, Len(TemplateTitle)) = TemplateTitle
    /\ SubSeq(t, Len(TemplateTitle) + 1, Len(TemplateTitle) + 2) = <<NL, NL>>
    /\ SubSeq(t, Len(t) - 2, Len(t)) = <<NL, NL, Marker>>
    /\ ContainsSeq(PRIMARY_KEYWORD, TemplateBody(t))
    /\ ContainsSeq(AFF_LINK, TemplateBody(t))
    /\ ~Contains(NL, TemplateBody(t))

TemplateReturned ==
    /\ ~HasCall("openai")
    /\ ~HasCall("hf")
    /\ tier = "local"
    /\ txt.type = "str"
    /\ IsTemplate(txt.val)
    /\ \A i \in CallsTo("posts") : calls[i].title = strip(TemplateTitle)

MarkerOnce ==
    /\ Count(Marker, txt.val) = 1
    /\ \A i \in CallsTo("posts") : Count(Marker, calls[i].content) = 1

\* C3 (as stated): for every keyword and affiliate link, with no credential
\* configured no backend is called and the text is the local template, with
\* the completion marker exactly once in it and in the body sent to publish.
C3_Claim == NoCredentials => TemplateReturned /\ MarkerOnce

MarkerFree == ~Contains(Marker, PRIMARY_KEYWORD) /\ ~Contains(Marker, AFF_LINK)

\* C3 (amended): as stated, but the marker occurs exactly once provided that
\* neither the keyword nor the affiliate link itself contains the marker.
C3_Amended ==
    NoCredentials => TemplateReturned /\ (MarkerFree => MarkerOnce)

C3_Witness ==
    /\ NoCredentials
    /\ MarkerFree
    /\ PRIMARY_KEYWORD = <<"a", SP, "a">>
    /\ HasCall("posts")

ImageEndpoints == {"unsplash", "media", "posts/{id}"}

PostFailed(i) == Answered(i) /\ resps[i].kind \in {"neterr", "timeout", "http_err"}

\* C4: a failed post-creation call is logged and ends the run with no image
\* fetch, media upload or featured-media update; such a request is only ever
\* issued after a post-creation call of the same run has succeeded.
C4_Theorem ==
    /\ \A i \in CallsTo("posts") :
          PostFailed(i) =>
              /\ pc = "done"
              /\ Len(calls) = i
              /\ log[Len(log)].msg = "Failed to post:"
    /\ \A j \in 1..Len(calls) :
          calls[j].endpoint \in ImageEndpoints =>
              \E i \in CallsTo("posts") : i < j /\ Answered(i) /\ resps[i].kind = "ok"

C4_Witness ==
    /\ pc = "done"
    /\ \E i \in CallsTo("posts") : Answered(i) /\ resps[i].kind = "http_err"

ImageStepFailed(j) ==
    /\ calls[j].endpoint \in ImageEndpoints
    /\ Answered(j)
    /\ resps[j].kind # "ok"

\* C5: after a successful post creation, a failure of the image fetch, the
\* media upload or the featured-media update is logged as an image failure,
\* not as a publish failure, is not raised, and leaves the draft in place:
\* its id has been reported and no request deletes or retracts it.
C5_Theorem ==
    \A j \in 1..Len(calls) :
        ImageStepFailed(j) =>
            /\ pc = "done"
            /\ Len(calls) = j
            /\ log[Len(log)].msg = "Image attach failed:"
            /\ ~Logged("Failed to post:")
            /\ \E k \in 1..Len(log) :
                  log[k].msg = "Draft created. Post ID:" /\ log[k].id = post_id
            /\ \E i \in CallsTo("posts") : i < j /\ resps[i].kind = "ok" /\ resps[i].id = post_id
            /\ \A i \in 1..Len(calls) :
                  calls[i].method \in {"GET", "POST"} /\ (i > j => calls[i].endpoint # "posts/{id}")

C5_Witness ==
    /\ post_id = 42
    /\ \E j \in CallsTo("unsplash") : ImageStepFailed(j) /\ resps[j].kind = "http_err"

UploadSucceeded(j) ==
    /\ calls[j].endpoint = "media"
    /\ Answered(j)
    /\ resps[j].kind = "ok"

UpdateFollows(j) ==
    /\ Len(calls) > j
    /\ calls[j + 1].endpoint = "posts/{id}"
    /\ calls[j + 1].target = post_id
    /\ calls[j + 1].featured_media = resps[j].id

InOrder(k) ==
    /\ k >= 3
    /\ calls[k - 2].endpoint = "unsplash" /\ resps[k - 2].kind = "ok"
    /\ calls[k - 1].endpoint = "media" /\ resps[k - 1].kind = "ok"
    /\ calls[k].featured_media = resps[k - 1].id

\* C6 (as stated): whenever the image fetch and the media upload both succeed
\* the update request follows, with featured_media set to the uploaded id;
\* fetch, upload and update come in that order.
C6_Claim ==
    /\ \A j \in 1..Len(calls) : UploadSucceeded(j) => UpdateFollows(j)
    /\ \A k \in CallsTo("posts/{id}") : InOrder(k)

\* C6 (amended): the update request follows a successful fetch and upload
\* exactly when the created post's id and the uploaded media's id are both
\* present and non-zero; it carries the uploaded id, and fetch, upload and
\* update come in that order.
C6_Amended ==
    /\ \A j \in 1..Len(calls) :
          UploadSucceeded(j) =>
              (UpdateFollows(j) <=> Truthy(post_id) /\ Truthy(resps[j].id))
    /\ \A k \in CallsTo("posts/{id}") : InOrder(k)

C6_Witness ==
    /\ pc = "done"
    /\ \E k \in CallsTo("posts/{id}") :
          /\ calls[k].target = 42
          /\ calls[k].featured_media = 7
          /\ Answered(k)
          /\ resps[k].kind = "ok"

SentBody == calls[Len(calls)].content

Sent == pc = "wait_post" /\ txt.type = "str"

Max(a, b) == IF a > b THEN a ELSE b

\* C7: the body sent to the post-creation call contains the completion marker,
\* and the marker-append step is idempotent: it adds nothing to a body that
\* already went through it, nor to one that carried the marker beforehand.
C7_Theorem ==
    Sent =>
        /\ Contains(Marker, SentBody)
        /\ mark_auto_generated(SentBody) = SentBody
        /\ Count(Marker, SentBody) = Max(1, Count(Marker, joined_body(txt.val)))

C7_Witness ==
    /\ Sent
    /\ Count(Marker, joined_body(txt.val)) = 1
    /\ Count(Marker, SentBody) = 1

HasMarkup(b) == Contains(P_OPEN, b) \/ Contains(H_OPEN, b)

RECURSIVE AfterTitle(_)
AfterTitle(ls) ==
    IF ls = <<>> THEN <<>>
    ELSE IF strip(Head(ls)) = <<>> THEN AfterTitle(Tail(ls))
    ELSE Tail(ls)

RECURSIVE Blocks(_, _)
Blocks(ls, inBlock) ==
    IF ls = <<>> THEN 0
    ELSE IF strip(Head(ls)) = <<>> THEN Blocks(Tail(ls), FALSE)
    ELSE (IF inBlock THEN 0 ELSE 1) + Blocks(Tail(ls), TRUE)

NumBlocks(t) == Blocks(AfterTitle(splitlines(t)), FALSE)

\* C9 (as stated): a generated text without markup whose body consists of k
\* blocks separated by blank lines is sent with k paragraph elements.
C9_Claim ==
    Sent /\ ~HasMarkup(txt.val) =>
        /\ Count(P_OPEN, SentBody) = NumBlocks(txt.val)
        /\ Count(P_CLOSE, SentBody) = NumBlocks(txt.val)

\* C10 (as stated): each backend and the post-creation endpoint are called at
\* most once, every request carries a timeout, and the run never waits
\* forever for a response.
C10_Claim ==
    /\ \A e \in {"openai", "hf", "posts"} : Cardinality(CallsTo(e)) <= 1
    /\ \A i \in 1..Len(calls) : calls[i].timeout # NoTimeout
    /\ pc # "blocked"

====
